---------------------------- MODULE Spec2Model ----------------------------
(***************************************************************************)
(* The access-log shipper of Tempesta FW (src/utils/tfw_logger.cc): one    *)
(* worker thread (run_thread) that receives spans of framed binary events  *)
(* from the per-CPU ring reader, decodes them (callback,                   *)
(* read_access_log_event) into a columnar block and commits the block.     *)
(*                                                                         *)
(* Bytes are naturals 0..255, a span is a sequence of bytes, offsets are   *)
(* 0-based as in the C code (data[off] is data[off + 1] here).             *)
(***************************************************************************)
EXTENDS Integers, Sequences, FiniteSets, TLC

(***************************************************************************)
(* Bounds of the model.                                                    *)
(***************************************************************************)
\* frames the producer puts in one span
MaxFrames == 2
\* bytes by which a span may fall short of its last frame's end
MaxCut == 3
\* a new span is taken only while fewer rows than this are staged in the block
MaxRows == 2

(***************************************************************************)
(* Binary framing (fw/access_log.h is not among the sources: the layout is *)
(* the one of the specification's data model, little-endian, packed).      *)
(***************************************************************************)
\* sizeof(TfwBinLogEvent): type (1) + fields mask (2) + timestamp (8)
HeaderSize == 11
TFW_MMAP_LOG_TYPE_ACCESS == 1
TFW_MMAP_LOG_TYPE_DROPPED == 2
\* a type byte that is neither ACCESS nor DROPPED
UnknownType == 99
\* number of entries of tfw_fields[]
TFW_MMAP_LOG_MAX == 10
\* first string field (vhost); ords below it are fixed-length
TFW_MMAP_LOG_VHOST == 6
\* sizeof(u64), the body of a DROPPED frame
U64Size == 8

Max(a, b) == IF a >= b THEN a ELSE b

\* tfw_mmap_log_field_len(): encoded length of the fixed-length fields
field_lens == <<16, 1, 1, 2, 4, 4, 0, 0, 0, 0>>
tfw_mmap_log_field_len(i) == field_lens[i + 1]

RECURSIVE Pow2(_)
Pow2(n) == IF n = 0 THEN 1 ELSE 2 * Pow2(n - 1)

\* TFW_MMAP_LOG_FIELD_IS_SET(event, i): event->fields & (1 << i)
TFW_MMAP_LOG_FIELD_IS_SET(mask, i) == (mask \div Pow2(i)) % 2 = 1

\* little-endian encoding of v on n bytes
RECURSIVE EncLE(_, _)
EncLE(v, n) == IF n = 0 THEN <<>> ELSE <<v % 256>> \o EncLE(v \div 256, n - 1)

\* the unsigned integer a little-endian machine loads from the bytes b
RECURSIVE DecLE(_)
DecLE(b) == IF b = <<>> THEN 0 ELSE Head(b) + 256 * DecLE(Tail(b))

\* the byte at 0-based offset off; g is what lies behind the end of the span
ByteAt(buf, off, g) == IF off < Len(buf) THEN buf[off + 1] ELSE g

\* n bytes at offset off, as the dereference *(T *)(data + off) loads them
Load(buf, off, n, g) == [k \in 1..n |-> ByteAt(buf, off + k - 1, g)]

(***************************************************************************)
(* The producer's side: what the spans are made of.                        *)
(***************************************************************************)
Rep(b, n) == [k \in 1..n |-> b]

\* two value vectors: timestamp, then the ten fields by ord
ValsA == [ts |-> 1,
          f |-> <<Rep(254, 16), 3, 2, 404, 16909060, 7,
                  <<104>>, <<47>>, <<>>, <<120>> >>]
ValsB == [ts |-> 66051,
          f |-> <<[k \in 1..16 |-> k], 255, 0, 65535, 0, 65536,
                  <<>>, <<97, 98>>, <<114>>, <<>> >>]
Vals == <<ValsA, ValsB>>

\* the ACCESS frames of the producer, as <<fields mask, value vector>>: no
\* field, address only, all but response_time, all ten fields
AccessFrames == {<<0, 2>>, <<1, 1>>, <<991, 2>>, <<1023, 1>>}

EncodeHeader(type, mask, ts) == <<type>> \o EncLE(mask, 2) \o EncLE(ts, 8)

EncodeField(i, v) ==
    IF i = 0 THEN v
    ELSE IF i < TFW_MMAP_LOG_VHOST THEN EncLE(v, tfw_mmap_log_field_len(i))
    ELSE EncLE(Len(v), 2) \o v

RECURSIVE EncodeBody(_, _, _)
EncodeBody(mask, f, i) ==
    IF i >= TFW_MMAP_LOG_MAX THEN <<>>
    ELSE (IF TFW_MMAP_LOG_FIELD_IS_SET(mask, i) THEN EncodeField(i, f[i + 1])
          ELSE <<>>) \o EncodeBody(mask, f, i + 1)

\* a frame descriptor: [type, mask, v]; v is the index of the value vector of
\* an ACCESS frame and the count of a DROPPED frame
EncodeFrame(fr) ==
    IF fr.type = TFW_MMAP_LOG_TYPE_ACCESS
    THEN EncodeHeader(fr.type, fr.mask, Vals[fr.v].ts)
             \o EncodeBody(fr.mask, Vals[fr.v].f, 0)
    ELSE IF fr.type = TFW_MMAP_LOG_TYPE_DROPPED
    THEN EncodeHeader(fr.type, 0, 0) \o EncLE(fr.v, U64Size)
    ELSE EncodeHeader(fr.type, 0, 0)

RECURSIVE EncodeSpan(_)
EncodeSpan(fs) ==
    IF fs = <<>> THEN <<>> ELSE EncodeFrame(Head(fs)) \o EncodeSpan(Tail(fs))

Frames ==
    {[type |-> TFW_MMAP_LOG_TYPE_ACCESS, mask |-> a[1], v |-> a[2]] :
        a \in AccessFrames}
    \cup {[type |-> TFW_MMAP_LOG_TYPE_DROPPED, mask |-> 0, v |-> 42],
          [type |-> UnknownType, mask |-> 0, v |-> 0]}

FrameSeqs == UNION {[1..n -> Frames] : n \in 1..MaxFrames}

\* the spans the reader may hand out: up to MaxFrames whole frames, the last
\* one possibly short of up to MaxCut bytes (the rest is still to be written)
SpanSet ==
    {[frames |-> fs,
      data |-> SubSeq(EncodeSpan(fs), 1, Len(EncodeSpan(fs)) - cut)] :
        fs \in FrameSeqs, cut \in 0..MaxCut}

\* what a read behind the end of the span may find
Garbage == {0, 255}

(***************************************************************************)
(* The worker's state.                                                     *)
(***************************************************************************)
VARIABLES
    pc,         \* where the worker is: "idle" (reader waits for a span),
                \* "loop" (top of callback's do-while), "ret" (callback has
                \* returned), "advanced" (the reader has released the span),
                \* "returned" (run_thread has returned), "fault"
    frames,     \* the frame descriptors the producer encoded into the span
    data,       \* callback's data: the bytes of the span
    p,          \* callback's p, as the offset p - data
    size,       \* callback's size
    r,          \* callback's r
    block,      \* clickhouse->get_block(): 11 columns
    inserted,   \* the blocks commit() inserted while this span was processed
    emitted,    \* the drop counts printed while this span was processed
    decoded,    \* offsets of the ACCESS frames of this span decoded with r >= 0
    droppedAt,  \* offset of the DROPPED header callback met in this span, or -1
    ret,        \* the return statement callback last left by ("none" while
                \* it runs): "end", "header", "access", "dropped",
                \* "dropped_short", "unknown"
    maxRead,    \* one past the highest offset dereferenced in this span
    pre,        \* the block's column lengths before the last decode call
    advanced    \* bytes the reader released to the ring for this span

vars == <<pc, frames, data, p, size, r, block, inserted, emitted, decoded,
          droppedAt, ret, maxRead, pre, advanced>>

(***************************************************************************)
(* The rest of the program's state: the supervisor main() of the logger,   *)
(* and a connection, an skb chain and the hook registry of connection.c.   *)
(* The worker's steps leave it alone.                                      *)
(***************************************************************************)
VARIABLES
    spc,        \* where main() is: "open", "sleep", "spawn", "join", "close",
                \* "fatal" (runtime_error thrown), "terminated" (join threw)
    fd,         \* main's fd: -1 or the handle open() returned
    idx,        \* main's loop index i
    thrs,       \* main's vector of threads: what each was started with and
                \* whether it is running, has exited, or was joined
    closed,     \* the handles main has closed
    oerr        \* the outcome of the last open(): "none", "ok", "ENOENT",
                \* "other"

main_vars == <<spc, fd, idx, thrs, closed, oerr>>

VARIABLES
    cpc,        \* per caller: the function it called (shutdown, close or
                \* abort) and where it is: "out", "hook" (between get and
                \* the hook's return), "put" (hook returned), "done"
    refcnt,     \* the connection's reference count
    dropped,    \* references released by the softirq teardown so far
    destroyed   \* the destructor of the connection has run

conn_vars == <<cpc, refcnt, dropped, destroyed>>

VARIABLES
    rpc,        \* where tfw_connection_recv is: "out", "loop", "end",
                \* "returned", "bug"
    incoming,   \* the skbs of the chain recv was called with, head first
    proto,      \* the protocol of the connection: "http" or "ws"
    stop_rcv,   \* tfw_connection_stop_rcv(conn) at the call
    skb,        \* recv's skb (0 is NULL)
    nextp,      \* recv's next
    nxt,        \* the next pointer of every skb
    prv,        \* the prev pointer of every skb
    rr,         \* recv's r
    processed,  \* the skbs handed to the protocol processor, in order, each
                \* with its next and prev at that moment and the result
    freed,      \* the skbs passed to __kfree_skb, in order
    rret        \* recv's return value: <<>> until it returns, then <<value>>

recv_vars == <<rpc, incoming, proto, stop_rcv, skb, nextp, nxt, prv, rr,
               processed, freed, rret>>

VARIABLES
    conn_hooks, \* the registry: protocol slot -> hooks object or NULL
    hpc,        \* "run", "bug" after a BUG_ON, "stray" after a store behind
                \* the array
    hlast       \* the last registry call: its operation, type, hooks object
                \* and the registry before it

hooks_vars == <<conn_hooks, hpc, hlast>>

all_vars == <<vars, main_vars, conn_vars, recv_vars, hooks_vars>>

NCols == TFW_MMAP_LOG_MAX + 1

\* make_block(): the timestamp column and one column per field, all empty
make_block == [c \in 1..NCols |-> <<>>]

ColLens(blk) == [c \in 1..NCols |-> Len(blk[c])]

\* a column that takes the new value in front of its rows
AppendCol_Front(blk, ind, v) == [blk EXCEPT ![ind + 1] = <<v>> \o @]

\* (*block)[ind]->Append(v)
AppendCol(blk, ind, v) == [blk EXCEPT ![ind + 1] = Append(@, v)]

\* Append(0) / Append(string("")): the column's zero value
ZeroValue(i) ==
    IF i = 0 THEN Rep(0, 16)
    ELSE IF i < TFW_MMAP_LOG_VHOST THEN 0
    ELSE <<>>

\* *(val_type *)p of INT_CASE
IntValue(buf, off, i, g) ==
    IF i = 0 THEN Load(buf, off, 16, g)
    ELSE DecLE(Load(buf, off, tfw_mmap_log_field_len(i), g))

\* event->type, event->fields, event->timestamp of the header at off
EventType(buf, off) == buf[off + 1]
EventFields(buf, off) == DecLE(Load(buf, off + 1, 2, 0))
EventTimestamp(buf, off) == DecLE(Load(buf, off + 3, 8, 0))


(***************************************************************************)
(* read_access_log_event().  The state of its loop is a record             *)
(*   [p, size, block, rd, r, done]:                                        *)
(* p and size are its locals, block the block it appends to, rd one past   *)
(* the highest offset it has dereferenced, r its return value once done.   *)
(***************************************************************************)

\* INT_CASE: the length check comes before the mask test
IntCase(buf, fields, g, i, st) ==
    LET len == tfw_mmap_log_field_len(i)
        ind == i + 1
    IN  IF len > st.size
        THEN [st EXCEPT !.r = -1, !.done = TRUE]
        ELSE IF TFW_MMAP_LOG_FIELD_IS_SET(fields, i)
        THEN [st EXCEPT !.block = AppendCol(@, ind, IntValue(buf, st.p, i, g)),
                        !.rd = Max(@, st.p + len),
                        !.p = @ + len,
                        !.size = @ - len]
        ELSE [st EXCEPT !.block = AppendCol(@, ind, ZeroValue(i))]

\* the four string cases: the length prefix is loaded, then checked
StringCase(buf, fields, g, i, st) ==
    LET ind == i + 1
        len == DecLE(Load(buf, st.p, 2, g))
    IN  IF ~TFW_MMAP_LOG_FIELD_IS_SET(fields, i)
        THEN [st EXCEPT !.block = AppendCol(@, ind, <<>>)]
        ELSE IF len + 2 > st.size
        THEN [st EXCEPT !.rd = Max(@, st.p + 2), !.r = -1, !.done = TRUE]
        ELSE [st EXCEPT !.block = AppendCol(@, ind, Load(buf, st.p + 2, len, g)),
                        !.rd = Max(@, st.p + 2 + len),
                        !.p = @ + len + 2,
                        !.size = @ - (len + 2)]

\* the for loop over the fields, from field i on
RECURSIVE FieldLoop(_, _, _, _, _, _)
FieldLoop(buf, start, fields, g, i, st) ==
    IF st.done THEN st
    ELSE IF i >= TFW_MMAP_LOG_MAX
    THEN [st EXCEPT !.r = st.p - start, !.done = TRUE]
    ELSE FieldLoop(buf, start, fields, g, i + 1,
                   IF i < TFW_MMAP_LOG_VHOST
                   THEN IntCase(buf, fields, g, i, st)
                   ELSE StringCase(buf, fields, g, i, st))

\* the call read_access_log_event(data + start, sz, clickhouse) on block blk
read_access_log_event(buf, start, sz, blk, g) ==
    FieldLoop(buf, start, EventFields(buf, start), g, 0,
              [p     |-> start + HeaderSize,
               size  |-> sz - HeaderSize,
               block |-> AppendCol(blk, 0, EventTimestamp(buf, start)),
               rd    |-> start + HeaderSize,
               r     |-> 0,
               done  |-> FALSE])

(***************************************************************************)
(* The worker: run_thread() constructs the client (with its first block)   *)
(* and the ring reader and runs the reader, which calls callback() on each *)
(* span.                                                                   *)
(***************************************************************************)
Init ==
    /\ pc = "idle"
    /\ frames = <<>>
    /\ data = <<>>
    /\ p = 0
    /\ size = 0
    /\ r = 0
    /\ block = make_block
    /\ inserted = <<>>
    /\ emitted = <<>>
    /\ decoded = <<>>
    /\ droppedAt = -1
    /\ ret = "none"
    /\ maxRead = 0
    /\ pre = ColLens(make_block)
    /\ advanced = 0

\* the reader hands a non-empty span to callback(data, size, clickhouse)
NextSpan ==
    /\ pc = "idle"
    /\ Len(block[1]) < MaxRows
    /\ \E s \in SpanSet :
          /\ frames' = s.frames
          /\ data' = s.data
          /\ size' = Len(s.data)
    /\ p' = 0
    /\ r' = 0
    /\ pc' = "loop"
    /\ inserted' = <<>>
    /\ emitted' = <<>>
    /\ decoded' = <<>>
    /\ droppedAt' = -1
    /\ ret' = "none"
    /\ maxRead' = 0
    /\ pre' = ColLens(block)
    /\ advanced' = 0
    /\ UNCHANGED block
    /\ UNCHANGED <<main_vars, conn_vars, recv_vars, hooks_vars>>

\* callback: if (size < (int)sizeof(TfwBinLogEvent)) return;
HeaderTruncated ==
    /\ pc = "loop"
    /\ size < HeaderSize
    /\ pc' = "ret"
    /\ ret' = "header"
    /\ UNCHANGED <<frames, data, p, size, r, block, inserted, emitted, decoded,
                   droppedAt, maxRead, pre, advanced>>
    /\ UNCHANGED <<main_vars, conn_vars, recv_vars, hooks_vars>>

\* callback, case TFW_MMAP_LOG_TYPE_ACCESS, up to the loop condition and,
\* when the loop ends, clickhouse->commit()
AccessEvent ==
    /\ pc = "loop"
    /\ size >= HeaderSize
    /\ EventType(data, p) = TFW_MMAP_LOG_TYPE_ACCESS
    /\ \E g \in Garbage :
          \E res \in {read_access_log_event(data, p, size, block, g)} :
              /\ r' = res.r
              /\ maxRead' = Max(maxRead, res.rd)
              /\ pre' = ColLens(block)
              /\ \/ /\ res.r < 0
                    /\ block' = res.block
                    /\ pc' = "ret"
                    /\ ret' = "access"
                    /\ UNCHANGED <<p, size, decoded, inserted>>
                 \/ /\ res.r >= 0
                    /\ size' = size - res.r
                    /\ p' = p + res.r
                    /\ decoded' = Append(decoded, p)
                    /\ IF size - res.r > 0
                       THEN /\ block' = res.block
                            /\ pc' = "loop"
                            /\ UNCHANGED <<inserted, ret>>
                       ELSE /\ inserted' = Append(inserted, res.block)
                            /\ block' = make_block
                            /\ pc' = "ret"
                            /\ ret' = "end"
                 \/ /\ res.rd > Len(data)
                    /\ block' = res.block
                    /\ pc' = "fault"
                    /\ UNCHANGED <<p, size, decoded, inserted, ret>>
    /\ UNCHANGED <<frames, data, emitted, droppedAt, advanced>>
    /\ UNCHANGED <<main_vars, conn_vars, recv_vars, hooks_vars>>

\* case TFW_MMAP_LOG_TYPE_DROPPED left by break instead of return once the
\* count is printed: the loop goes on behind the DROPPED frame
DroppedEvent_Break ==
    /\ pc = "loop"
    /\ size >= HeaderSize
    /\ EventType(data, p) = TFW_MMAP_LOG_TYPE_DROPPED
    /\ droppedAt' = p
    /\ IF U64Size > size - HeaderSize
       THEN /\ p' = p + HeaderSize
            /\ size' = size - HeaderSize
            /\ maxRead' = Max(maxRead, p + 1)
            /\ pc' = "ret"
            /\ ret' = "dropped_short"
            /\ UNCHANGED <<emitted, inserted, block>>
       ELSE /\ emitted' = Append(emitted,
                                 DecLE(Load(data, p + HeaderSize, U64Size, 0)))
            /\ p' = p + HeaderSize + U64Size
            /\ size' = size - HeaderSize - U64Size
            /\ maxRead' = Max(maxRead, p + HeaderSize + U64Size)
            /\ IF size - HeaderSize - U64Size > 0
               THEN /\ pc' = "loop"
                    /\ UNCHANGED <<ret, inserted, block>>
               ELSE /\ inserted' = Append(inserted, block)
                    /\ block' = make_block
                    /\ pc' = "ret"
                    /\ ret' = "end"
    /\ UNCHANGED <<frames, data, r, decoded, pre, advanced>>
    /\ UNCHANGED <<main_vars, conn_vars, recv_vars, hooks_vars>>

\* callback, case TFW_MMAP_LOG_TYPE_DROPPED
DroppedEvent ==
    /\ pc = "loop"
    /\ size >= HeaderSize
    /\ EventType(data, p) = TFW_MMAP_LOG_TYPE_DROPPED
    /\ droppedAt' = p
    /\ pc' = "ret"
    /\ IF U64Size > size - HeaderSize
       THEN /\ p' = p + HeaderSize
            /\ size' = size - HeaderSize
            /\ maxRead' = Max(maxRead, p + 1)
            /\ ret' = "dropped_short"
            /\ UNCHANGED emitted
       ELSE /\ emitted' = Append(emitted,
                                 DecLE(Load(data, p + HeaderSize, U64Size, 0)))
            /\ p' = p + HeaderSize + U64Size
            /\ size' = size - HeaderSize - U64Size
            /\ maxRead' = Max(maxRead, p + HeaderSize + U64Size)
            /\ ret' = "dropped"
    /\ UNCHANGED <<frames, data, r, block, inserted, decoded, pre, advanced>>
    /\ UNCHANGED <<main_vars, conn_vars, recv_vars, hooks_vars>>

\* callback, default case: an unsupported log type
UnknownEvent ==
    /\ pc = "loop"
    /\ size >= HeaderSize
    /\ EventType(data, p) \notin
           {TFW_MMAP_LOG_TYPE_ACCESS, TFW_MMAP_LOG_TYPE_DROPPED}
    /\ maxRead' = Max(maxRead, p + 1)
    /\ pc' = "ret"
    /\ ret' = "unknown"
    /\ UNCHANGED <<frames, data, p, size, r, block, inserted, emitted, decoded,
                   droppedAt, pre, advanced>>
    /\ UNCHANGED <<main_vars, conn_vars, recv_vars, hooks_vars>>

(***************************************************************************)
(* The ring reader (utils/mmap_buffer.h is not among the sources).  It is  *)
(* given callback, which returns void (lines 170-171, 225), so all it      *)
(* knows when callback returns is the span it handed out: that is what it  *)
(* releases.  Its loop ends when the device is closed, and run_thread      *)
(* returns right after mbr.run() (lines 233-234).                          *)
(***************************************************************************)
Advance ==
    /\ pc = "ret"
    /\ advanced' = Len(data)
    /\ pc' = "advanced"
    /\ UNCHANGED <<frames, data, p, size, r, block, inserted, emitted, decoded,
                   droppedAt, ret, maxRead, pre>>
    /\ UNCHANGED <<main_vars, conn_vars, recv_vars, hooks_vars>>

\* the reader's loop starts over and waits for the next span; callback's
\* frame and what was recorded about the finished span are gone, but for the
\* way callback was left
ReaderLoop ==
    /\ pc = "advanced"
    /\ pc' = "idle"
    /\ frames' = <<>>
    /\ data' = <<>>
    /\ p' = 0
    /\ size' = 0
    /\ r' = 0
    /\ inserted' = <<>>
    /\ emitted' = <<>>
    /\ decoded' = <<>>
    /\ droppedAt' = -1
    /\ maxRead' = 0
    /\ pre' = ColLens(block)
    /\ advanced' = 0
    /\ UNCHANGED <<block, ret>>
    /\ UNCHANGED <<main_vars, conn_vars, recv_vars, hooks_vars>>

Closed ==
    /\ pc = "idle"
    /\ pc' = "returned"
    /\ UNCHANGED <<frames, data, p, size, r, block, inserted, emitted, decoded,
                   droppedAt, ret, maxRead, pre, advanced>>
    /\ UNCHANGED <<main_vars, conn_vars, recv_vars, hooks_vars>>

Next ==
    \/ NextSpan
    \/ HeaderTruncated
    \/ AccessEvent
    \/ DroppedEvent
    \/ UnknownEvent
    \/ Advance
    \/ ReaderLoop
    \/ Closed

TypeOK ==
    /\ pc \in {"idle", "loop", "ret", "advanced", "returned", "fault"}
    /\ size = Len(data) - p
    /\ size >= 0


(***************************************************************************)
(* main() of tfw_logger.cc: the supervisor.  It opens the device, starts   *)
(* one worker per online CPU on the handle, joins the workers and closes   *)
(* the handle, and does so again.  The workers are taken here by what      *)
(* main() sees of them: a thread runs until run_thread returns.            *)
(***************************************************************************)
\* sysconf(_SC_NPROCESSORS_ONLN)
cpu_cnt == 2

\* the state of main() before its outer loop: thrs is empty
MainInit ==
    /\ spc = "open"
    /\ fd = -1
    /\ idx = 0
    /\ thrs = <<>>
    /\ closed = {}
    /\ oerr = "none"

\* std::thread::joinable()
joinable(th) == th.state \in {"running", "exited"}

\* an exception nothing catches ends the process, and its threads with it
Terminate(v) ==
    [k \in DOMAIN v |->
        IF v[k].state = "running" THEN [v[k] EXCEPT !.state = "killed"]
        ELSE v[k]]

\* an Open that leaves the retry loop on every error but ENOENT
Open_AnyError ==
    /\ spc = "open"
    /\ \E e \in {"ok", "ENOENT", "other"} :
          /\ oerr' = e
          /\ fd' = IF e = "ok" THEN Cardinality(closed) + 1 ELSE -1
          /\ spc' = IF e = "ENOENT" THEN "sleep" ELSE "spawn"
    /\ idx' = 0
    /\ UNCHANGED <<thrs, closed>>
    /\ UNCHANGED <<vars, conn_vars, recv_vars, hooks_vars>>

\* while ((fd = open(FILE_PATH, O_RDWR)) == -1) {
\*         if (errno != ENOENT) throw runtime_error(strerror(errno));
\* one evaluation of the condition; on success the spawn loop starts at i = 0
Open ==
    /\ spc = "open"
    /\ \E e \in {"ok", "ENOENT", "other"} :
          /\ oerr' = e
          /\ fd' = IF e = "ok" THEN Cardinality(closed) + 1 ELSE -1
          /\ spc' = CASE e = "ok" -> "spawn"
                      [] e = "ENOENT" -> "sleep"
                      [] OTHER -> "fatal"
          /\ thrs' = IF e = "other" THEN Terminate(thrs) ELSE thrs
    /\ idx' = 0
    /\ UNCHANGED closed
    /\ UNCHANGED <<vars, conn_vars, recv_vars, hooks_vars>>

\* sleep(WAIT_FOR_FILE); and back to the condition of the retry loop
Sleep ==
    /\ spc = "sleep"
    /\ spc' = "open"
    /\ UNCHANGED <<fd, idx, thrs, closed, oerr>>
    /\ UNCHANGED <<vars, conn_vars, recv_vars, hooks_vars>>

\* for (i = 0; i < cpu_cnt; ++i)
\*         thrs.push_back(thread(run_thread, i, fd, argv[1]));
Spawn ==
    /\ spc = "spawn"
    /\ idx < cpu_cnt
    /\ thrs' = Append(thrs, [cpu |-> idx, fd |-> fd, state |-> "running",
                             cause |-> "none"])
    /\ idx' = IF idx + 1 < cpu_cnt THEN idx + 1 ELSE 0
    /\ spc' = IF idx + 1 < cpu_cnt THEN "spawn" ELSE "join"
    /\ UNCHANGED <<fd, closed, oerr>>
    /\ UNCHANGED <<vars, conn_vars, recv_vars, hooks_vars>>

\* a join that returns although the thread still runs
Join_NoWait ==
    /\ spc = "join"
    /\ idx < cpu_cnt
    /\ joinable(thrs[idx + 1])
    /\ thrs' = IF thrs[idx + 1].state = "exited"
               THEN [thrs EXCEPT ![idx + 1].state = "joined"]
               ELSE thrs
    /\ idx' = IF idx + 1 < cpu_cnt THEN idx + 1 ELSE 0
    /\ spc' = IF idx + 1 < cpu_cnt THEN "join" ELSE "close"
    /\ UNCHANGED <<fd, closed, oerr>>
    /\ UNCHANGED <<vars, conn_vars, recv_vars, hooks_vars>>

\* for (i = 0; i < cpu_cnt; ++i)
\*         thrs[i].join();
\* join() waits until the thread has exited; on a thread that is not
\* joinable it throws std::system_error, which nothing catches
Join ==
    /\ spc = "join"
    /\ idx < cpu_cnt
    /\ \/ /\ ~joinable(thrs[idx + 1])
          /\ spc' = "terminated"
          /\ thrs' = Terminate(thrs)
          /\ UNCHANGED idx
       \/ /\ thrs[idx + 1].state = "exited"
          /\ thrs' = [thrs EXCEPT ![idx + 1].state = "joined"]
          /\ idx' = IF idx + 1 < cpu_cnt THEN idx + 1 ELSE 0
          /\ spc' = IF idx + 1 < cpu_cnt THEN "join" ELSE "close"
    /\ UNCHANGED <<fd, closed, oerr>>
    /\ UNCHANGED <<vars, conn_vars, recv_vars, hooks_vars>>

\* close(fd); and back to the top of while (1)
Close ==
    /\ spc = "close"
    /\ closed' = closed \cup {fd}
    /\ spc' = "open"
    /\ UNCHANGED <<fd, idx, thrs, oerr>>
    /\ UNCHANGED <<vars, conn_vars, recv_vars, hooks_vars>>

\* run_thread returns in a worker: its reader has ended, because the device
\* was closed or because of a fatal protocol violation
WorkerExit ==
    /\ spc \notin {"fatal", "terminated"}
    /\ \E k \in DOMAIN thrs : \E c \in {"closed", "fatal"} :
          /\ thrs[k].state = "running"
          /\ thrs' = [thrs EXCEPT ![k].state = "exited", ![k].cause = c]
    /\ UNCHANGED <<spc, fd, idx, closed, oerr>>
    /\ UNCHANGED <<vars, conn_vars, recv_vars, hooks_vars>>

\* the steps of the thread that runs main()
MainStep ==
    \/ Open
    \/ Sleep
    \/ Spawn
    \/ Join
    \/ Close

MainNext ==
    \/ MainStep
    \/ WorkerExit

(***************************************************************************)
(* connection.c, tfw_connection_shutdown, tfw_connection_close and         *)
(* tfw_connection_abort: process-context callers on one connection, while  *)
(* the softirq teardown releases the references the other owners hold.     *)
(***************************************************************************)
\* the references held on the connection before any of the calls
InitRefs == 2
\* the concurrent callers
MaxCallers == 2

Callers == 1..MaxCallers
CloseCalls == {"shutdown", "close", "abort"}

ConnInit ==
    /\ cpc = [c \in Callers |-> [at |-> "out", fn |-> "none"]]
    /\ refcnt = InitRefs
    /\ dropped = 0
    /\ destroyed = FALSE

\* tfw_connection_get(conn)
tfw_connection_get(cnt) == cnt + 1

\* tfw_connection_put(conn): the count after the release, and whether the
\* release was the last one, which runs the destructor
tfw_connection_put(cnt) == [cnt |-> cnt - 1, last |-> cnt - 1 = 0]

\* a call that runs the hook without a reference of its own
Call_NoGet ==
    /\ ~destroyed
    /\ \E c \in Callers : \E f \in CloseCalls :
          /\ cpc[c].at = "out"
          /\ cpc' = [cpc EXCEPT ![c] = [at |-> "hook", fn |-> f]]
    /\ UNCHANGED <<refcnt, dropped, destroyed>>
    /\ UNCHANGED <<vars, main_vars, recv_vars, hooks_vars>>

\* entry of shutdown, close or abort on a live connection:
\*         tfw_connection_get(conn);
\* after which TFW_CONN_HOOK_CALL(conn, conn_shutdown | conn_close |
\* conn_abort) runs
Call ==
    /\ ~destroyed
    /\ \E c \in Callers : \E f \in CloseCalls :
          /\ cpc[c].at = "out"
          /\ cpc' = [cpc EXCEPT ![c] = [at |-> "hook", fn |-> f]]
    /\ refcnt' = tfw_connection_get(refcnt)
    /\ UNCHANGED <<dropped, destroyed>>
    /\ UNCHANGED <<vars, main_vars, recv_vars, hooks_vars>>

\* the hook returns
HookReturn ==
    /\ \E c \in Callers :
          /\ cpc[c].at = "hook"
          /\ cpc' = [cpc EXCEPT ![c].at = "put"]
    /\ UNCHANGED <<refcnt, dropped, destroyed>>
    /\ UNCHANGED <<vars, main_vars, recv_vars, hooks_vars>>

\*         tfw_connection_put(conn);
\* and the return
Put ==
    /\ \E c \in Callers :
          /\ cpc[c].at = "put"
          /\ cpc' = [cpc EXCEPT ![c].at = "done"]
    /\ refcnt' = tfw_connection_put(refcnt).cnt
    /\ destroyed' = (destroyed \/ tfw_connection_put(refcnt).last)
    /\ UNCHANGED dropped
    /\ UNCHANGED <<vars, main_vars, recv_vars, hooks_vars>>

\* the softirq teardown releases one of the references held before the calls
SoftirqPut ==
    /\ dropped < InitRefs
    /\ dropped' = dropped + 1
    /\ refcnt' = tfw_connection_put(refcnt).cnt
    /\ destroyed' = (destroyed \/ tfw_connection_put(refcnt).last)
    /\ UNCHANGED cpc
    /\ UNCHANGED <<vars, main_vars, recv_vars, hooks_vars>>

ConnNext ==
    \/ Call
    \/ HookReturn
    \/ Put
    \/ SoftirqPut

(***************************************************************************)
(* connection.c, tfw_connection_recv: one call on a chain of skbs.  An skb *)
(* is a number, 0 is NULL.                                                 *)
(***************************************************************************)
\* the longest incoming chain
MaxSkbs == 2
\* the most skbs the HTTP processor splits off during one call
MaxSplits == 1

\* results of message processing
T_BLOCK_WITH_RST == -4
T_BLOCK == -3
T_BAD == -2
T_DROP == -1
T_OK == 0
T_POSTPONE == 1

Results == {T_BLOCK_WITH_RST, T_BLOCK, T_BAD, T_DROP, T_OK, T_POSTPONE}

SkbIds == 1..(MaxSkbs + MaxSplits)

RecvInit ==
    /\ rpc = "out"
    /\ incoming = <<>>
    /\ proto = "none"
    /\ stop_rcv = FALSE
    /\ skb = 0
    /\ nextp = 0
    /\ nxt = [s \in SkbIds |-> 0]
    /\ prv = [s \in SkbIds |-> 0]
    /\ rr = T_OK
    /\ processed = <<>>
    /\ freed = <<>>
    /\ rret = <<>>

\* a chain of n skbs: NULL-terminated, or a ring whose tail points back to
\* the head and whose head's prev is the tail
ChainNext(n, ring) ==
    [s \in SkbIds |-> IF s < n THEN s + 1
                      ELSE IF s = n /\ ring THEN 1 ELSE 0]
ChainPrev(n, ring) ==
    [s \in SkbIds |-> IF 1 < s /\ s <= n THEN s - 1
                      ELSE IF s = 1 /\ ring THEN n ELSE 0]

\* the skbs split off so far
Splitted == {processed[k].splitted : k \in DOMAIN processed} \ {0}

\* what the processor may put in *splitted: NULL, or, when the HTTP
\* processor drops the request, an skb with the next request
SplitChoice(res) ==
    IF proto = "http" /\ res = T_DROP /\ Cardinality(Splitted) < MaxSplits
    THEN {0, Len(incoming) + Cardinality(Splitted) + 1}
    ELSE {0}

\* the call, up to the first test of the loop condition:
\*         if (unlikely(tfw_connection_stop_rcv(conn))) {
\*                 __kfree_skb(skb);
\*                 return 0;
\*         }
\*         if (skb->prev) skb->prev->next = NULL;
\*         for (next = skb->next; ...
RecvCall ==
    /\ rpc = "out"
    /\ \E n \in 1..MaxSkbs : \E ring \in BOOLEAN :
       \E stop \in BOOLEAN : \E pr \in {"http", "ws"} :
          /\ incoming' = [k \in 1..n |-> k]
          /\ proto' = pr
          /\ stop_rcv' = stop
          /\ prv' = ChainPrev(n, ring)
          /\ skb' = 1
          /\ IF stop
             THEN /\ nxt' = ChainNext(n, ring)
                  /\ freed' = <<1>>
                  /\ rret' = <<0>>
                  /\ rpc' = "returned"
                  /\ nextp' = 0
             ELSE /\ nxt' = IF ChainPrev(n, ring)[1] # 0
                            THEN [ChainNext(n, ring)
                                     EXCEPT ![ChainPrev(n, ring)[1]] = 0]
                            ELSE ChainNext(n, ring)
                  /\ nextp' = nxt'[1]
                  /\ rpc' = "loop"
                  /\ UNCHANGED <<freed, rret>>
    /\ UNCHANGED <<rr, processed>>
    /\ UNCHANGED <<vars, main_vars, conn_vars, hooks_vars>>

\* one turn of the loop body with skb != NULL, and the loop's increment
\*         skb = next, next = next ? next->next : NULL
RecvIter ==
    /\ rpc = "loop"
    /\ skb # 0
    /\ IF rr = T_OK \/ rr = T_POSTPONE \/ rr = T_DROP
       THEN \E res \in Results : \E sp \in SplitChoice(res) :
               /\ processed' = Append(processed,
                                  [skb |-> skb, next |-> 0, prev |-> 0,
                                   r |-> res, splitted |-> sp])
               /\ rr' = res
               /\ prv' = [prv EXCEPT ![skb] = 0]
               /\ nxt' = IF res = T_DROP /\ sp # 0
                         THEN [nxt EXCEPT ![skb] = 0, ![sp] = nextp]
                         ELSE [nxt EXCEPT ![skb] = 0]
               /\ skb' = IF res = T_DROP /\ sp # 0 THEN sp ELSE nextp
               /\ nextp' = IF skb' # 0 THEN nxt'[skb'] ELSE 0
               /\ UNCHANGED freed
       ELSE /\ freed' = Append(freed, skb)
            /\ skb' = nextp
            /\ nextp' = IF nextp # 0 THEN nxt[nextp] ELSE 0
            /\ UNCHANGED <<rr, processed, nxt, prv>>
    /\ UNCHANGED <<rpc, incoming, proto, stop_rcv, rret>>
    /\ UNCHANGED <<vars, main_vars, conn_vars, hooks_vars>>

\* an end of the call that returns r as it is
RecvEnd_Raw ==
    /\ rpc = "loop"
    /\ skb = 0
    /\ rpc' = "returned"
    /\ rret' = <<rr>>
    /\ UNCHANGED <<incoming, proto, stop_rcv, skb, nextp, nxt, prv, rr,
                   processed, freed>>
    /\ UNCHANGED <<vars, main_vars, conn_vars, hooks_vars>>

\* the loop has ended:
\*         BUG_ON(r == T_BLOCK);
\*         return r <= T_BAD || r == T_OK ? r : T_BAD;
RecvEnd ==
    /\ rpc = "loop"
    /\ skb = 0
    /\ IF rr = T_BLOCK
       THEN /\ rpc' = "bug"
            /\ UNCHANGED rret
       ELSE /\ rpc' = "returned"
            /\ rret' = <<IF rr <= T_BAD \/ rr = T_OK THEN rr ELSE T_BAD>>
    /\ UNCHANGED <<incoming, proto, stop_rcv, skb, nextp, nxt, prv, rr,
                   processed, freed>>
    /\ UNCHANGED <<vars, main_vars, conn_vars, hooks_vars>>

RecvNext ==
    \/ RecvCall
    \/ RecvIter
    \/ RecvEnd

(***************************************************************************)
(* connection.c, the registry conn_hooks and its two functions.  A hooks   *)
(* object is a number, 0 is NULL.                                          *)
(***************************************************************************)
\* the number of slots of conn_hooks
TFW_CONN_MAX_PROTOS == 3
\* the connection types the callers pass are 0..MaxType
MaxType == 5
\* the hooks objects the callers pass are 1..MaxHooks
MaxHooks == 2

\* the index of a connection type: its low bits, the protocol
TypeIdxRange == 4
TFW_CONN_TYPE2IDX(tp) == tp % TypeIdxRange

HooksInit ==
    /\ conn_hooks = [hid \in 0..(TFW_CONN_MAX_PROTOS - 1) |-> 0]
    /\ hpc = "run"
    /\ hlast = [op |-> "none", tp |-> 0, hooks |-> 0]

\* a register that stores without looking at the slot
Register_Overwrite ==
    /\ hpc # "bug"
    /\ \E hooks \in 1..MaxHooks : \E tp \in 0..MaxType :
          /\ hlast' = [op |-> "register", tp |-> tp, hooks |-> hooks]
          /\ IF TFW_CONN_TYPE2IDX(tp) >= TFW_CONN_MAX_PROTOS
             THEN /\ hpc' = "bug"
                  /\ UNCHANGED conn_hooks
             ELSE /\ conn_hooks' =
                         [conn_hooks EXCEPT ![TFW_CONN_TYPE2IDX(tp)] = hooks]
                  /\ UNCHANGED hpc
    /\ UNCHANGED <<vars, main_vars, conn_vars, recv_vars>>

\* tfw_connection_hooks_register(hooks, type):
\*         unsigned hid = TFW_CONN_TYPE2IDX(type);
\*         BUG_ON(hid >= TFW_CONN_MAX_PROTOS || conn_hooks[hid]);
\*         conn_hooks[hid] = hooks;
Register ==
    /\ hpc # "bug"
    /\ \E hooks \in 1..MaxHooks : \E tp \in 0..MaxType :
          /\ hlast' = [op |-> "register", tp |-> tp, hooks |-> hooks]
          /\ IF TFW_CONN_TYPE2IDX(tp) >= TFW_CONN_MAX_PROTOS
                \/ conn_hooks[TFW_CONN_TYPE2IDX(tp)] # 0
             THEN /\ hpc' = "bug"
                  /\ UNCHANGED conn_hooks
             ELSE /\ conn_hooks' =
                         [conn_hooks EXCEPT ![TFW_CONN_TYPE2IDX(tp)] = hooks]
                  /\ UNCHANGED hpc
    /\ UNCHANGED <<vars, main_vars, conn_vars, recv_vars>>

\* tfw_connection_hooks_unregister(type):
\*         conn_hooks[TFW_CONN_TYPE2IDX(type)] = NULL;
\* an index at or beyond the array makes the store land behind the array
Unregister ==
    /\ hpc # "bug"
    /\ \E tp \in 0..MaxType :
          /\ hlast' = [op |-> "unregister", tp |-> tp, hooks |-> 0]
          /\ IF TFW_CONN_TYPE2IDX(tp) >= TFW_CONN_MAX_PROTOS
             THEN /\ hpc' = "stray"
                  /\ UNCHANGED conn_hooks
             ELSE /\ conn_hooks' =
                         [conn_hooks EXCEPT ![TFW_CONN_TYPE2IDX(tp)] = 0]
                  /\ UNCHANGED hpc
    /\ UNCHANGED <<vars, main_vars, conn_vars, recv_vars>>

HooksNext ==
    \/ Register
    \/ Unregister

(***************************************************************************)
(* The specifications: every part starts in its initial state, and one     *)
(* part runs.                                                              *)
(***************************************************************************)
InitAll ==
    /\ Init
    /\ MainInit
    /\ ConnInit
    /\ RecvInit
    /\ HooksInit

\* a logger worker
Spec == InitAll /\ [][Next]_all_vars

\* the logger's main() and its workers
MainSpec == InitAll /\ [][MainNext]_all_vars

\* the same, with the thread of main() scheduled whenever it can step
MainFair == MainSpec /\ WF_all_vars(MainStep)

\* the callers of shutdown, close and abort, and the softirq teardown
ConnSpec == InitAll /\ [][ConnNext]_all_vars

\* a call of tfw_connection_recv
RecvSpec == InitAll /\ [][RecvNext]_all_vars

\* the calls of the registry
HooksSpec == InitAll /\ [][HooksNext]_all_vars

(***************************************************************************)
(* Notions the properties below are stated with.                           *)
(***************************************************************************)

\* the block the last decode call appended to: commit() has replaced it by a
\* fresh one when callback left by the end of its loop
LastBlock == IF inserted # <<>> THEN inserted[Len(inserted)] ELSE block

Grown(lens) == [c \in 1..NCols |-> lens[c] + 1]

Aligned(blk) == \A c \in 1..NCols : Len(blk[c]) = Len(blk[1])

LastRow(blk) == [c \in 1..NCols |-> blk[c][Len(blk[c])]]

\* the row an ACCESS frame stands for: its timestamp, the value of each
\* field of its mask, the zero value of each other field
ExpectedRow(fr) ==
    [c \in 1..NCols |->
        IF c = 1 THEN Vals[fr.v].ts
        ELSE IF TFW_MMAP_LOG_FIELD_IS_SET(fr.mask, c - 2)
        THEN Vals[fr.v].f[c - 1]
        ELSE ZeroValue(c - 2)]

AllAccess(fs) == \A k \in 1..Len(fs) : fs[k].type = TFW_MMAP_LOG_TYPE_ACCESS

\* the span holds its frames to the last byte
Uncut == data = EncodeSpan(frames)

\* offset of the k-th frame of the span
FrameStart(k) == Len(EncodeSpan(SubSeq(frames, 1, k - 1)))

\* number of frames callback walked over completely, and their bytes
WholeFrames == Len(decoded) + (IF ret = "dropped" THEN 1 ELSE 0)
WholeBytes == Len(EncodeSpan(SubSeq(frames, 1, WholeFrames)))

(***************************************************************************)
(* C1.  An ACCESS frame is appended to all 11 columns or to none: after a  *)
(* call of read_access_log_event every column has grown by one row or no   *)
(* column has grown, and when the call returned an error (callback left    *)
(* on r < 0) every column has the row count it had before the call.        *)
(***************************************************************************)
C1_AllOrNothing ==
    pc # "fault" =>
        /\ \/ ColLens(LastBlock) = pre
           \/ ColLens(LastBlock) = Grown(pre)
        /\ ret = "access" => ColLens(LastBlock) = pre

(***************************************************************************)
(* C2.  Whenever a decode of an ACCESS frame has succeeded (r > 0), all    *)
(* columns of the block it appended to have equal length, each one greater *)
(* than before the frame, whatever earlier spans left in the block.        *)
(***************************************************************************)
C2_AlignedAfterSuccess ==
    r > 0 =>
        /\ Aligned(LastBlock)
        /\ ColLens(LastBlock) = Grown(pre)

(***************************************************************************)
(* C3.  When callback has returned from a span that ended on a frame       *)
(* boundary, with an incomplete header or with an incomplete ACCESS body,  *)
(* commit() was called exactly once and a fresh block is in use.           *)
(***************************************************************************)
C3_CommitOncePerSpan ==
    (pc = "ret" /\ ret \in {"end", "header", "access"}) =>
        /\ Len(inserted) = 1
        /\ block = make_block

(***************************************************************************)
(* C4.  No byte at or behind offset size of the span is dereferenced.      *)
(***************************************************************************)
C4_NoReadPastSpan == maxRead <= Len(data)

(***************************************************************************)
(* C5.  A span made of whole ACCESS frames, the last one ending exactly at *)
(* the end of the span, is decoded to its end for every field mask: each   *)
(* frame is decoded at its offset and the consumed length is the sum of    *)
(* the headers and the encoded lengths of the present fields.              *)
(***************************************************************************)
C5_AbsentFieldsTakeNoBytes ==
    (pc = "ret" /\ AllAccess(frames) /\ Uncut) =>
        /\ ret = "end"
        /\ p = Len(data)
        /\ decoded = [k \in 1..Len(frames) |-> FrameStart(k)]

(***************************************************************************)
(* C6.  Round trip: the encoding of an ACCESS event with field set S and   *)
(* values V, decoded by read_access_log_event, appends one row: the        *)
(* timestamp, V on the ords of S, the zero value elsewhere.                *)
(***************************************************************************)
C6_RoundTrip ==
    (pc = "ret" /\ Len(frames) = 1 /\ AllAccess(frames) /\ Uncut) =>
        /\ r = Len(data)
        /\ ColLens(LastBlock) = Grown(pre)
        /\ LastRow(LastBlock) = ExpectedRow(frames[1])

(***************************************************************************)
(* C7.  The byte count the reader releases to the ring for a span is the   *)
(* byte count of the whole frames decoded from it.                         *)
(***************************************************************************)
C7_AdvanceWholeFrames == pc = "advanced" => advanced = WholeBytes

C9_UnknownCommitsAndExits ==
    ret = "unknown" =>
        /\ pc \in {"ret", "advanced"} =>
              /\ p = FrameStart(Len(decoded) + 1)
              /\ block = make_block
              /\ Len(inserted) = IF decoded = <<>> THEN 0 ELSE 1
        /\ pc \in {"ret", "advanced", "returned"}

(***************************************************************************)
(* C10.  When run_thread has returned, no appended row is left uncommitted *)
(* in the worker's block.                                                  *)
(***************************************************************************)
C10_NothingStagedAtReturn ==
    pc = "returned" => \A c \in 1..NCols : block[c] = <<>>

(***************************************************************************)
(* Notions for the properties of main().                                   *)
(***************************************************************************)
\* the threads main() started on handle f
StartedOn(f) == {k \in DOMAIN thrs : thrs[k].fd = f}

\* no thread of the process is running or waiting to be joined
AllJoined == \A k \in DOMAIN thrs : thrs[k].state = "joined"

(***************************************************************************)
(* C11: in every device session main() closes the handle only after every  *)
(* worker it started on that handle has exited and been joined, so no      *)
(* worker runs, or waits to be joined, on a closed handle.                 *)
(***************************************************************************)
C11_CloseAfterJoin ==
    \A k \in DOMAIN thrs : thrs[k].fd \in closed => thrs[k].state = "joined"

\* the first session has been closed with all its workers joined, one of
\* them having left on a protocol violation
C11_Witness ==
    /\ closed = {1}
    /\ spc = "open"
    /\ Cardinality(StartedOn(1)) = cpu_cnt
    /\ \A k \in StartedOn(1) : thrs[k].state = "joined"
    /\ \E k \in StartedOn(1) : thrs[k].cause = "fatal"

(***************************************************************************)
(* C12: the loop of main() can be repeated: in every session, the second   *)
(* and later ones too, main() starts exactly one worker per online CPU on  *)
(* the handle it has just opened and joins exactly those workers, and its  *)
(* join never ends the process.                                            *)
(***************************************************************************)
C12_SessionsRepeat ==
    /\ spc # "terminated"
    /\ spc = "join" => thrs[idx + 1].fd = fd
    /\ spc \in {"join", "close"} => Cardinality(StartedOn(fd)) = cpu_cnt

(***************************************************************************)
(* C13: when a worker of the first session has exited on a protocol        *)
(* violation while another one still runs, main() gets back to opening the *)
(* device, whether or not the other workers ever end on their own.         *)
(***************************************************************************)
C13_FatalExitEndsSession ==
    (/\ closed = {}
     /\ \E k \in DOMAIN thrs :
           thrs[k].state = "exited" /\ thrs[k].cause = "fatal"
     /\ \E k \in DOMAIN thrs : thrs[k].state = "running")
    ~> (spc = "open" /\ closed # {})

(***************************************************************************)
(* C14: while open() fails with ENOENT main() sleeps and tries again, and  *)
(* starts no worker; when open() fails otherwise main() ends with a fatal  *)
(* error and starts no worker; a worker is only ever started on a handle   *)
(* that open() returned and that is still open.                            *)
(***************************************************************************)
C14_OpenFailures ==
    [][/\ spc' = "sleep" => oerr' = "ENOENT" /\ fd' = -1 /\ AllJoined'
       /\ spc = "sleep" => spc' \in {"sleep", "open"} /\ thrs' = thrs
       /\ spc' = "fatal" => oerr' = "other" /\ fd' = -1 /\ AllJoined'
       /\ spc = "fatal" => spc' = "fatal" /\ thrs' = thrs
       /\ Len(thrs') > Len(thrs) =>
             /\ oerr = "ok"
             /\ fd >= 1
             /\ fd \notin closed
             /\ thrs'[Len(thrs')].fd = fd
             /\ thrs'[Len(thrs')].state = "running"]_all_vars

\* main() is asleep after ENOENT, between two sessions
C14_Witness ==
    /\ spc = "sleep"
    /\ oerr = "ENOENT"
    /\ closed = {1}
    /\ Len(thrs) = cpu_cnt

(***************************************************************************)
(* Notions for the order of the rows.                                      *)
(***************************************************************************)
\* the row count of column c when callback was entered: pre holds the
\* counts before the last call of read_access_log_event, and every call
\* before the last one added a row to every column
SpanBase(c) ==
    IF r >= 0 THEN pre[c] - (Len(decoded) - 1) ELSE pre[c] - Len(decoded)

(***************************************************************************)
(* C15: the rows of a span are in the block in the order of its ACCESS     *)
(* frames: in every column the row of the k-th frame decoded from the span *)
(* is the k-th row appended since callback was entered, so the row of an   *)
(* earlier frame has the lower index.                                      *)
(***************************************************************************)
C15_RowsInFrameOrder ==
    (pc # "fault" /\ maxRead <= Len(data)) =>
        \A k \in 1..Len(decoded) :
            /\ \A c \in 1..NCols : SpanBase(c) + k \in 1..Len(LastBlock[c])
            /\ [c \in 1..NCols |-> LastBlock[c][SpanBase(c) + k]]
                   = ExpectedRow(frames[k])

\* two frames with different rows were decoded from one span into a block
\* that already held a row
C15_Witness ==
    /\ pc = "ret"
    /\ ret = "end"
    /\ Len(decoded) = 2
    /\ maxRead <= Len(data)
    /\ SpanBase(1) > 0
    /\ \E c \in 1..NCols :
          ExpectedRow(frames[1])[c] # ExpectedRow(frames[2])[c]

(***************************************************************************)
(* Notions for the reference count.                                        *)
(***************************************************************************)
\* the callers between their get and their put
Holding == {c \in Callers : cpc[c].at \in {"hook", "put"}}

(***************************************************************************)
(* C16: shutdown, close and abort hold a reference of their own from       *)
(* before the hook is called until after it has returned: while a hook     *)
(* runs the connection is not destroyed and its count is at least one,     *)
(* whatever the softirq teardown releases meanwhile; and a call that has   *)
(* returned has left the count as it would be without the call.            *)
(***************************************************************************)
C16_HookHoldsReference ==
    /\ \A c \in Callers : cpc[c].at = "hook" => ~destroyed /\ refcnt >= 1
    /\ refcnt = InitRefs - dropped + Cardinality(Holding)

\* the teardown has released every other reference while the hook of an
\* abort runs, after an earlier call has come and gone
C16_Witness ==
    /\ \E c \in Callers : cpc[c].at = "hook" /\ cpc[c].fn = "abort"
    /\ \E c \in Callers : cpc[c].at = "done"
    /\ dropped = InitRefs
    /\ refcnt = 1
    /\ ~destroyed

(***************************************************************************)
(* Notions for the skbs of a call of tfw_connection_recv.                  *)
(***************************************************************************)
\* every skb the call has to dispose of: the chain and the skbs split off
CallSkbs == {incoming[k] : k \in DOMAIN incoming} \cup Splitted

\* how often skb s was handed to the processor, and how often freed
TimesProcessed(s) ==
    Cardinality({k \in DOMAIN processed : processed[k].skb = s})
TimesFreed(s) == Cardinality({k \in DOMAIN freed : freed[k] = s})

\* results after which the loop goes on processing
Continues(res) == res = T_OK \/ res = T_POSTPONE \/ res = T_DROP

RecvOver == rpc \in {"returned", "bug"}

(***************************************************************************)
(* C17: when tfw_connection_recv is over, every skb of the incoming chain  *)
(* and every skb split off on T_DROP has been handed to the processor once *)
(* or freed once, never both and never twice; an skb is handed over with   *)
(* next and prev NULL; after a result other than T_OK, T_POSTPONE and       *)
(* T_DROP no skb is processed; on a connection that must stop receiving    *)
(* nothing is processed, the skb is freed and 0 is returned.               *)
(***************************************************************************)
C17_EverySkbDisposedOnce ==
    /\ \A k \in DOMAIN processed :
          /\ processed[k].next = 0 /\ processed[k].prev = 0
          /\ k < Len(processed) => Continues(processed[k].r)
    /\ \A s \in SkbIds : TimesProcessed(s) + TimesFreed(s) <= 1
    /\ (freed # <<>> /\ ~stop_rcv) =>
          processed # <<>> /\ ~Continues(processed[Len(processed)].r)
    /\ (RecvOver /\ stop_rcv) =>
          processed = <<>> /\ rret = <<0>> /\ TimesFreed(incoming[1]) = 1
    /\ RecvOver => \A s \in CallSkbs : TimesProcessed(s) + TimesFreed(s) = 1

(***************************************************************************)
(* C18: tfw_connection_recv returns T_OK or a value at or below T_BAD: a   *)
(* last result at or below T_BAD, or T_OK, is returned as it is, T_DROP     *)
(* and T_POSTPONE are returned as T_BAD, and with T_BLOCK as the last       *)
(* result the function does not return: it stops in BUG_ON.                *)
(***************************************************************************)
C18_ReturnValues ==
    /\ rpc = "returned" =>
          /\ Len(rret) = 1
          /\ rret[1] = T_OK \/ rret[1] <= T_BAD
          /\ ~stop_rcv =>
                /\ rr # T_BLOCK
                /\ (rr <= T_BAD \/ rr = T_OK) => rret[1] = rr
                /\ (rr > T_BAD /\ rr # T_OK) => rret[1] = T_BAD
    /\ rpc = "bug" => rr = T_BLOCK /\ rret = <<>>

\* the last skb of a chain of two was postponed, and T_BAD came back
C18_Witness ==
    /\ rpc = "returned"
    /\ Len(incoming) = 2
    /\ Len(processed) = 2
    /\ rr = T_POSTPONE
    /\ rret = <<T_BAD>>

(***************************************************************************)
(* Notions for the registry.                                               *)
(***************************************************************************)
Slots == 0..(TFW_CONN_MAX_PROTOS - 1)

\* slots other than hid are after the step what they were before it
OtherSlotsKept(hid) ==
    \A o \in Slots \ {hid} : conn_hooks'[o] = conn_hooks[o]

(***************************************************************************)
(* C19: a slot of the registry holds NULL or the one hooks object that was *)
(* registered in it while it was empty: a register on an occupied slot, or *)
(* with an index at or beyond TFW_CONN_MAX_PROTOS, stops in BUG_ON and     *)
(* leaves the registry as it is; a register on an empty slot stores the    *)
(* object; an unregister leaves the slot empty; and neither call changes   *)
(* any other slot.                                                         *)
(***************************************************************************)
C19_RegistrySlots ==
    [][/\ hlast'.op = "register" =>
             IF TFW_CONN_TYPE2IDX(hlast'.tp) >= TFW_CONN_MAX_PROTOS
             THEN hpc' = "bug" /\ conn_hooks' = conn_hooks
             ELSE IF conn_hooks[TFW_CONN_TYPE2IDX(hlast'.tp)] # 0
             THEN hpc' = "bug" /\ conn_hooks' = conn_hooks
             ELSE /\ hpc' = hpc
                  /\ conn_hooks'[TFW_CONN_TYPE2IDX(hlast'.tp)] = hlast'.hooks
                  /\ OtherSlotsKept(TFW_CONN_TYPE2IDX(hlast'.tp))
       /\ hlast'.op = "unregister" =>
             /\ hpc' # "bug"
             /\ OtherSlotsKept(TFW_CONN_TYPE2IDX(hlast'.tp))
             /\ TFW_CONN_TYPE2IDX(hlast'.tp) \in Slots =>
                   conn_hooks'[TFW_CONN_TYPE2IDX(hlast'.tp)] = 0
       /\ \A o \in Slots : conn_hooks'[o] \in 0..MaxHooks]_all_vars

\* a register on a slot that holds another hooks object has stopped in
\* BUG_ON, and the slot still holds that object, next to an empty slot
C19_Witness ==
    /\ hpc = "bug"
    /\ hlast.op = "register"
    /\ TFW_CONN_TYPE2IDX(hlast.tp) \in Slots
    /\ conn_hooks[TFW_CONN_TYPE2IDX(hlast.tp)] \notin {0, hlast.hooks}
    /\ \E o \in Slots : conn_hooks[o] = 0
    /\ hlast.tp >= TypeIdxRange

=============================================================================
